---- MODULE Spec2Model ----
(***************************************************************************)
(* The Java 8 / OpenJDK language definition of the grading system          *)
(* (cms/grading/languages/java8_jdk.py) and the Contest database object    *)
(* (cms/db/Contest.py).                                                    *)
(*                                                                         *)
(* A Python str is a sequence of one-character strings, so that quoting,   *)
(* joining and the shell's word splitting are computed character by        *)
(* character.  A command is a sequence of such tokens and a pipeline is a  *)
(* sequence of commands.                                                   *)
(***************************************************************************)
EXTENDS Integers, Sequences, FiniteSets, TLC

(***************************************************************************)
(* Bounds of the model.                                                    *)
(***************************************************************************)
\* longest executable_filename drawn
MaxNameLen == 1
\* longest source_filenames list drawn
MaxSources == 2
\* longest args list drawn
MaxArgs == 2
\* longest tasks / users / announcements list of a Contest
MaxItems == 1

(***************************************************************************)
(* Python values.                                                          *)
(***************************************************************************)
\* Python's None where a str is expected: no sequence of one-character
\* strings equals it.
None ==
    <<"None">>

\* Python's None where a list of str is expected.
NoneList ==
    <<None>>

\* All sequences over S of length at most n.
SeqsUpTo(S, n) ==
    UNION {[1..k -> S] : k \in 0..n}

RECURSIVE Join(_, _)
\* sep.join(parts)
Join(sep, parts) ==
    IF parts = <<>> THEN <<>>
    ELSE IF Len(parts) = 1 THEN parts[1]
    ELSE parts[1] \o sep \o Join(sep, Tail(parts))

(***************************************************************************)
(* The string literals of java8_jdk.py.                                    *)
(***************************************************************************)
\* "/usr/lib/jvm/java-8-openjdk-amd64/bin"
JDK_BIN ==
    <<"/", "u", "s", "r", "/", "l", "i", "b", "/", "j", "v", "m", "/", "j", "a", "v", "a", "-", "8", "-", "o", "p", "e", "n", "j", "d", "k", "-", "a", "m", "d", "6", "4", "/", "b", "i", "n">>

\* "/bin/sh"
SH ==
    <<"/", "b", "i", "n", "/", "s", "h">>

\* "-c"
DASH_C ==
    <<"-", "c">>

\* "jar"
JAR ==
    <<"j", "a", "r">>

\* "cf"
CF ==
    <<"c", "f">>

\* "*.class"
CLASS_GLOB ==
    <<"*", ".", "c", "l", "a", "s", "s">>

\* "zip"
ZIP ==
    <<"z", "i", "p">>

\* "-r"
DASH_R ==
    <<"-", "r">>

\* "-"
DASH ==
    <<"-">>

\* ">"
GT ==
    <<">">>

\* "/usr/lib/jvm/java-8-openjdk-amd64/bin/java"
JAVA ==
    <<"/", "u", "s", "r", "/", "l", "i", "b", "/", "j", "v", "m", "/", "j", "a", "v", "a", "-", "8", "-", "o", "p", "e", "n", "j", "d", "k", "-", "a", "m", "d", "6", "4", "/", "b", "i", "n", "/", "j", "a", "v", "a">>

\* "-Deval=true"
DEVAL ==
    <<"-", "D", "e", "v", "a", "l", "=", "t", "r", "u", "e">>

\* "-Xmx1000M"
XMX ==
    <<"-", "X", "m", "x", "1", "0", "0", "0", "M">>

\* "-Xss1000M"
XSS ==
    <<"-", "X", "s", "s", "1", "0", "0", "0", "M">>

\* "-Xbatch"
XBATCH ==
    <<"-", "X", "b", "a", "t", "c", "h">>

\* "-XX:+UseSerialGC"
SERIAL_GC ==
    <<"-", "X", "X", ":", "+", "U", "s", "e", "S", "e", "r", "i", "a", "l", "G", "C">>

\* "-XX:-TieredCompilation"
NO_TIERED ==
    <<"-", "X", "X", ":", "-", "T", "i", "e", "r", "e", "d", "C", "o", "m", "p", "i", "l", "a", "t", "i", "o", "n">>

\* "-XX:CICompilerCount=1"
CI_COUNT ==
    <<"-", "X", "X", ":", "C", "I", "C", "o", "m", "p", "i", "l", "e", "r", "C", "o", "u", "n", "t", "=", "1">>

\* "-cp"
DASH_CP ==
    <<"-", "c", "p">>

\* "/usr/bin/unzip"
UNZIP ==
    <<"/", "u", "s", "r", "/", "b", "i", "n", "/", "u", "n", "z", "i", "p">>

(***************************************************************************)
(* shlex.quote, imported as shell_quote.                                   *)
(***************************************************************************)
\* The characters the pattern [^\w@%+=:,./-] (re.ASCII) does not match.
SafeChars ==
    {"a", "b", "c", "d", "e", "f", "g", "h", "i", "j", "k", "l", "m",
     "n", "o", "p", "q", "r", "s", "t", "u", "v", "w", "x", "y", "z",
     "A", "B", "C", "D", "E", "F", "G", "H", "I", "J", "K", "L", "M",
     "N", "O", "P", "Q", "R", "S", "T", "U", "V", "W", "X", "Y", "Z",
     "0", "1", "2", "3", "4", "5", "6", "7", "8", "9", "_",
     "@", "%", "+", "=", ":", ",", ".", "/", "-"}

\* _find_unsafe(s) is not None
find_unsafe(s) ==
    \E i \in 1..Len(s) : s[i] \notin SafeChars

RECURSIVE ReplaceQuote(_)
\* s.replace("'", "'\"'\"'")
ReplaceQuote(s) ==
    IF s = <<>> THEN <<>>
    ELSE (IF Head(s) = "'" THEN <<"'", "\"", "'", "\"", "'">> ELSE <<Head(s)>>)
         \o ReplaceQuote(Tail(s))

\* Mutant of shell_quote: the text is interpolated as it is.
shell_quote_bare(s) ==
    s

\* shlex.quote(s)
shell_quote(s) ==
    IF s = <<>> THEN <<"'", "'">>
    ELSE IF ~find_unsafe(s) THEN s
    ELSE <<"'">> \o ReplaceQuote(s) \o <<"'">>

(***************************************************************************)
(* class Java8JDK                                                          *)
(***************************************************************************)
\* Java8JDK.source_extensions
source_extensions ==
    {<<".", "j", "a", "v", "a">>}

\* What a call hands back: the pipeline returned, or the exception raised.
Returned(pipeline) ==
    [raised |-> "none", value |-> pipeline]

\* No call made yet.
NoResult ==
    [raised |-> "none", value |-> <<>>]

\* Mutant of compile_command: the compiler is run through the shell, the
\* source filenames joined into its line.
compile_command_shell(source_filenames) ==
    <<SH, DASH_C, Join(<<" ">>, <<JDK_BIN>> \o source_filenames)>>

\* compile_command = [".../bin"] + source_filenames
compile_command(source_filenames) ==
    <<JDK_BIN>> \o source_filenames

\* jar_command
jar_command(executable_filename) ==
    <<SH, DASH_C,
      Join(<<" ">>, <<JAR, CF, shell_quote(executable_filename), CLASS_GLOB>>)>>

\* zip_command
zip_command(executable_filename) ==
    <<SH, DASH_C,
      Join(<<" ">>, <<ZIP, DASH_R, DASH, CLASS_GLOB, GT,
                      shell_quote(executable_filename)>>)>>

\* Mutant of get_compilation_commands: one compiler stage per source file.
get_compilation_commands_per_file(use_jar, source_filenames, executable_filename, for_evaluation) ==
    Returned([i \in 1..Len(source_filenames) |->
                 compile_command(<<source_filenames[i]>>)]
             \o <<IF use_jar THEN jar_command(executable_filename)
                             ELSE zip_command(executable_filename)>>)

\* Java8JDK.get_compilation_commands
get_compilation_commands(use_jar, source_filenames, executable_filename, for_evaluation) ==
    IF use_jar
    THEN Returned(<<compile_command(source_filenames),
                    jar_command(executable_filename)>>)
    ELSE Returned(<<compile_command(source_filenames),
                    zip_command(executable_filename)>>)

\* The resource and determinism flags of the runtime invocation.
java_flags ==
    <<DEVAL, XMX, XSS, XBATCH, SERIAL_GC, NO_TIERED, CI_COUNT>>

\* args = args if args is not None else []
args_or_empty(args) ==
    IF args # NoneList THEN args ELSE <<>>

\* Mutant of java_cp_command: the classpath and the class change places.
java_cp_command_swapped(executable_filename, main, args) ==
    <<JAVA>> \o java_flags \o <<DASH_CP, main, executable_filename>> \o args

\* the command returned when USE_JAR is set
java_cp_command(executable_filename, main, args) ==
    <<JAVA>> \o java_flags \o <<DASH_CP, executable_filename, main>> \o args

\* unzip_command
unzip_command(executable_filename) ==
    <<UNZIP, executable_filename>>

\* Mutant of command: args are placed right after the runtime.
command_args_first(main, args) ==
    <<JAVA>> \o args \o java_flags \o <<main>>

\* command
command(main, args) ==
    <<JAVA>> \o java_flags \o <<main>> \o args

\* Mutant of get_evaluation_commands: the test of USE_JAR is inverted.
get_evaluation_commands_flipped(use_jar, executable_filename, main, args) ==
    IF ~use_jar
    THEN Returned(<<java_cp_command(executable_filename, main,
                                    args_or_empty(args))>>)
    ELSE Returned(<<unzip_command(executable_filename),
                    command(main, args_or_empty(args))>>)

\* Java8JDK.get_evaluation_commands
get_evaluation_commands(use_jar, executable_filename, main, args) ==
    IF use_jar
    THEN Returned(<<java_cp_command(executable_filename, main,
                                    args_or_empty(args))>>)
    ELSE Returned(<<unzip_command(executable_filename),
                    command(main, args_or_empty(args))>>)
(***************************************************************************)
(* The shell's reading of a command line handed to /bin/sh -c: quote       *)
(* removal and splitting into words and operators.                         *)
(***************************************************************************)
\* Characters that end a word and stand as an operator when unquoted.
ShOperators ==
    {";", ">", "<", "|", "&", "(", ")"}

\* Characters that start an expansion when not inside single quotes.
ShExpansions ==
    {"$"}

\* Characters that make an unquoted word a pathname pattern.
ShGlobs ==
    {"*", "?", "["}

ShWord(text, glob) ==
    [op |-> FALSE, text |-> text, glob |-> glob]

ShOp(c) ==
    [op |-> TRUE, text |-> <<c>>, glob |-> FALSE]

\* The tokens scanned so far, with the word under construction (if any) closed.
ShClose(toks, cur, inword, glob) ==
    IF inword THEN Append(toks, ShWord(cur, glob)) ELSE toks

RECURSIVE ShScan(_, _, _, _, _, _, _)
\* rest: the characters still to read; mode: "plain", "single" or "double";
\* cur/inword/glob: the word under construction; toks: the finished tokens;
\* expands: an expansion ($) was met.
ShScan(rest, mode, cur, inword, glob, toks, expands) ==
    IF rest = <<>>
    THEN [ok |-> mode = "plain",
          toks |-> ShClose(toks, cur, inword, glob),
          expands |-> expands]
    ELSE LET c == Head(rest)
             r == Tail(rest)
         IN CASE mode = "single" ->
                   IF c = "'"
                   THEN ShScan(r, "plain", cur, TRUE, glob, toks, expands)
                   ELSE ShScan(r, "single", cur \o <<c>>, TRUE, glob, toks, expands)
              [] mode = "double" ->
                   IF c = "\""
                   THEN ShScan(r, "plain", cur, TRUE, glob, toks, expands)
                   ELSE IF c = "\\" /\ r # <<>>
                   THEN ShScan(Tail(r), "double", cur \o <<Head(r)>>, TRUE, glob,
                               toks, expands)
                   ELSE ShScan(r, "double", cur \o <<c>>, TRUE, glob, toks,
                               expands \/ c \in ShExpansions)
              [] OTHER ->
                   IF c = " "
                   THEN ShScan(r, "plain", <<>>, FALSE, FALSE,
                               ShClose(toks, cur, inword, glob), expands)
                   ELSE IF c = "'"
                   THEN ShScan(r, "single", cur, TRUE, glob, toks, expands)
                   ELSE IF c = "\""
                   THEN ShScan(r, "double", cur, TRUE, glob, toks, expands)
                   ELSE IF c = "\\" /\ r # <<>>
                   THEN ShScan(Tail(r), "plain", cur \o <<Head(r)>>, TRUE, glob,
                               toks, expands)
                   ELSE IF c \in ShOperators
                   THEN ShScan(r, "plain", <<>>, FALSE, FALSE,
                               Append(ShClose(toks, cur, inword, glob), ShOp(c)),
                               expands)
                   ELSE ShScan(r, "plain", cur \o <<c>>, TRUE,
                               glob \/ c \in ShGlobs, toks,
                               expands \/ c \in ShExpansions)

\* The shell's tokens of a command line.
ShLex(line) ==
    ShScan(line, "plain", <<>>, FALSE, FALSE, <<>>, FALSE)

(***************************************************************************)
(* Inputs drawn for the calls.                                             *)
(***************************************************************************)
\* Characters of an executable_filename: a safe one, a space, a single
\* quote and a shell operator.
NameChars ==
    {"a", " ", "'", ";"}

ExecutableFilenames ==
    SeqsUpTo(NameChars, MaxNameLen)

\* "A.java" and "b.c"
SourceNames ==
    {<<"A", ".", "j", "a", "v", "a">>, <<"b", ".", "c">>}

SourceLists ==
    SeqsUpTo(SourceNames, MaxSources)

\* None, "" and "Main"
Mains ==
    {None, <<>>, <<"M", "a", "i", "n">>}

\* None and the lists over "5", "3"
ArgLists ==
    {NoneList} \cup SeqsUpTo({<<"5">>, <<"3">>}, MaxArgs)

(***************************************************************************)
(* State: the packaging flag and the last call made on the language        *)
(* object, with its arguments and what it handed back.                     *)
(***************************************************************************)
VARIABLES USE_JAR, method, source_filenames, executable_filename,
          for_evaluation, main, args, result, self, exported

langVars ==
    <<USE_JAR, method, source_filenames, executable_filename,
      for_evaluation, main, args, result>>

contestVars ==
    <<self, exported>>

vars ==
    <<USE_JAR, method, source_filenames, executable_filename,
      for_evaluation, main, args, result, self, exported>>

\* A call of get_compilation_commands(srcs, exe, forEval).
GetCompilationCommands(srcs, exe, forEval) ==
    /\ method' = "get_compilation_commands"
    /\ source_filenames' = srcs
    /\ executable_filename' = exe
    /\ for_evaluation' = forEval
    /\ main' = None
    /\ args' = NoneList
    /\ result' = get_compilation_commands(USE_JAR, srcs, exe, forEval)
    /\ UNCHANGED <<USE_JAR, self, exported>>

\* A call of get_evaluation_commands(exe, m, a).
GetEvaluationCommands(exe, m, a) ==
    /\ method' = "get_evaluation_commands"
    /\ source_filenames' = <<>>
    /\ executable_filename' = exe
    /\ for_evaluation' = TRUE
    /\ main' = m
    /\ args' = a
    /\ result' = get_evaluation_commands(USE_JAR, exe, m, a)
    /\ UNCHANGED <<USE_JAR, self, exported>>
(***************************************************************************)
(* class Contest and class Announcement                                    *)
(***************************************************************************)
\* Python's None where an int or an object is expected.
PyNone ==
    [type |-> "NoneType"]

\* Python's None where a list of objects is expected.
PyNoneList ==
    <<PyNone>>

PyInt(n) ==
    [type |-> "int", value |-> n]

\* A Task, User or RankingView object, known by its name alone.
PyObject(class, name) ==
    [type |-> class, name |-> name]

\* task.export_to_dict(), user.export_to_dict(), ranking_view.export_to_dict():
\* the dictionary of that object.
ObjectExport(obj) ==
    [exported |-> obj]

\* Announcement.__init__
Announcement(timestamp, subject, text, contest) ==
    [timestamp |-> timestamp, subject |-> subject, text |-> text,
     contest |-> contest]

\* Announcement.export_to_dict
AnnouncementExport(announcement) ==
    [timestamp |-> announcement.timestamp,
     subject |-> announcement.subject,
     text |-> announcement.text]

\* The data fields Contest.__init__ sets.
ContestFields ==
    {"name", "description", "tasks", "users", "token_initial", "token_max",
     "token_total", "token_min_interval", "token_gen_time",
     "token_gen_number", "start", "stop", "announcements", "ranking_view"}

\* Contest.__init__
ContestInit(name, description, tasks, users, token_initial, token_max, token_total, token_min_interval, token_gen_time, token_gen_number, start, stop, announcements, ranking_view) ==
    [name |-> name,
     description |-> description,
     tasks |-> tasks,
     users |-> users,
     token_initial |-> token_initial,
     token_max |-> token_max,
     token_total |-> token_total,
     token_min_interval |-> token_min_interval,
     token_gen_time |-> token_gen_time,
     token_gen_number |-> token_gen_number,
     start |-> start,
     stop |-> stop,
     announcements |-> IF announcements = PyNoneList THEN <<>> ELSE announcements,
     ranking_view |-> ranking_view]

\* The dictionary Contest.export_to_dict builds.
ContestDict(c) ==
    [name |-> c.name,
     description |-> c.description,
     tasks |-> [i \in 1..Len(c.tasks) |-> ObjectExport(c.tasks[i])],
     users |-> [i \in 1..Len(c.users) |-> ObjectExport(c.users[i])],
     token_initial |-> c.token_initial,
     token_max |-> c.token_max,
     token_min_interval |-> c.token_min_interval,
     token_gen_time |-> c.token_gen_time,
     token_gen_number |-> c.token_gen_number,
     start |-> c.start,
     stop |-> c.stop,
     announcements |-> [i \in 1..Len(c.announcements) |->
                           AnnouncementExport(c.announcements[i])],
     ranking_view |-> ObjectExport(c.ranking_view)]

\* Nothing exported yet.
NotExported ==
    [called |-> FALSE, raised |-> "none", value |-> [k \in {} |-> PyNone]]

\* Contest.export_to_dict: self.ranking_view.export_to_dict() on None raises
\* AttributeError.
export_to_dict(c) ==
    IF c.ranking_view = PyNone
    THEN [called |-> TRUE, raised |-> "AttributeError",
          value |-> [k \in {} |-> PyNone]]
    ELSE [called |-> TRUE, raised |-> "none", value |-> ContestDict(c)]

\* "c1", "c2"
ContestNames ==
    {<<"c", "1">>, <<"c", "2">>}

\* None, "d"
Descriptions ==
    {None, <<"d">>}

Tasks ==
    {PyObject("Task", <<"t">>)}

Users ==
    {PyObject("User", <<"u">>)}

RankingViews ==
    {PyNone, PyObject("RankingView", <<"r">>)}

Announcements ==
    {Announcement(1, <<"s">>, <<"x">>, PyNone)}

\* None and the lists of announcements
AnnouncementLists ==
    {PyNoneList} \cup SeqsUpTo(Announcements, MaxItems)

TokenCounts ==
    {0, 1}

Times ==
    {PyNone, PyInt(0)}

\* Contest(name, description, tasks, users) with every default.
DefaultContest ==
    ContestInit(<<"c", "1">>, None, <<>>, <<>>, 0, 0, 0, 0, 60, 1,
                PyNone, PyNone, PyNoneList, PyNone)

\* A new Contest object.
NewContest(name, description, tasks, users, token_max, token_total, start, announcements, ranking_view) ==
    /\ self' = ContestInit(name, description, tasks, users, 0, token_max,
                           token_total, 0, 60, 1, start, PyNone,
                           announcements, ranking_view)
    /\ exported' = NotExported
    /\ UNCHANGED langVars

\* self.export_to_dict()
ExportToDict ==
    /\ exported' = export_to_dict(self)
    /\ UNCHANGED self
    /\ UNCHANGED langVars

(***************************************************************************)
(* Specifications.                                                         *)
(***************************************************************************)
Init ==
    /\ USE_JAR \in BOOLEAN
    /\ method = "none"
    /\ source_filenames = <<>>
    /\ executable_filename = <<>>
    /\ for_evaluation = TRUE
    /\ main = None
    /\ args = NoneList
    /\ result = NoResult
    /\ self = DefaultContest
    /\ exported = NotExported

CompilationCall ==
    \E srcs \in SourceLists, exe \in ExecutableFilenames, forEval \in BOOLEAN :
        GetCompilationCommands(srcs, exe, forEval)

EvaluationCall ==
    \E exe \in ExecutableFilenames, m \in Mains, a \in ArgLists :
        GetEvaluationCommands(exe, m, a)

ContestCall ==
    \E name \in ContestNames, description \in Descriptions,
       tasks \in SeqsUpTo(Tasks, MaxItems), users \in SeqsUpTo(Users, MaxItems),
       token_max \in TokenCounts, token_total \in TokenCounts,
       start \in Times, announcements \in AnnouncementLists,
       ranking_view \in RankingViews :
        NewContest(name, description, tasks, users, token_max, token_total,
                   start, announcements, ranking_view)

\* The language object alone.
NextLanguage ==
    \/ CompilationCall
    \/ EvaluationCall

\* The Contest object alone.
NextContest ==
    \/ ContestCall
    \/ ExportToDict

Next ==
    \/ CompilationCall
    \/ EvaluationCall
    \/ ContestCall
    \/ ExportToDict

SpecLanguage ==
    Init /\ [][NextLanguage]_vars

SpecContest ==
    Init /\ [][NextContest]_vars

Spec ==
    Init /\ [][Next]_vars

(***************************************************************************)
(* Vocabulary of the properties.                                           *)
(***************************************************************************)
Compiled ==
    method = "get_compilation_commands"

Evaluated ==
    method = "get_evaluation_commands"

\* The args list the caller gave, an absent one read as empty.
GivenArgs(a) ==
    IF a = NoneList THEN <<>> ELSE a

EndsWith(s, suffix) ==
    /\ Len(s) >= Len(suffix)
    /\ SubSeq(s, Len(s) - Len(suffix) + 1, Len(s)) = suffix

\* The part of a path after its last "/".
Basename(path) ==
    LET slashes == {i \in 1..Len(path) : path[i] = "/"}
    IN IF slashes = {} THEN path
       ELSE SubSeq(path, (CHOOSE i \in slashes : \A j \in slashes : j <= i) + 1,
                   Len(path))

\* The name carries one of the descriptor's source extensions.
HasSourceExtension(name) ==
    \E ext \in source_extensions : EndsWith(name, ext)

LastStage(pipeline) ==
    pipeline[Len(pipeline)]

\* The stage goes through the shell interpreter.
IsShellStage(stage) ==
    stage[1] = SH

\* The last n tokens of a stage.
LastTokens(stage, n) ==
    SubSeq(stage, Len(stage) - n + 1, Len(stage))

\* A stage without its last n tokens.
WithoutLastTokens(stage, n) ==
    SubSeq(stage, 1, Len(stage) - n)

\* What the shell makes of the packaging stage of a compilation pipeline:
\* the archive format written and the file it is written to.
Packaged(pipeline) ==
    LET lx == ShLex(LastStage(pipeline)[3])
        toks == lx.toks
    IN IF lx.ok /\ Len(toks) = 4 /\ toks[1] = ShWord(JAR, FALSE)
          /\ ~toks[3].op
       THEN [format |-> "jar", file |-> toks[3].text]
       ELSE IF lx.ok /\ Len(toks) = 6 /\ toks[1] = ShWord(ZIP, FALSE)
               /\ toks[5] = ShOp(">") /\ ~toks[6].op
       THEN [format |-> "zip", file |-> toks[6].text]
       ELSE [format |-> "unreadable", file |-> None]

\* What an evaluation pipeline needs to find: the archive format it consumes
\* and the file it reads.
Consumed(pipeline) ==
    LET first == pipeline[1]
        cp == {i \in 1..(Len(first) - 1) : first[i] = DASH_CP}
    IN IF first[1] = UNZIP /\ Len(first) = 2
       THEN [format |-> "zip", file |-> first[2]]
       ELSE IF first[1] = JAVA /\ cp # {}
       THEN [format |-> "jar",
             file |-> first[(CHOOSE i \in cp : \A j \in cp : i <= j) + 1]]
       ELSE [format |-> "none", file |-> None]

(***************************************************************************)
(* C1: get_evaluation_commands called with main None or "" fails with      *)
(* MissingEntryPointError and returns no pipeline.                         *)
(***************************************************************************)
C1_MissingEntryPointRejected ==
    (Evaluated /\ main \in {None, <<>>})
        => (result.raised = "MissingEntryPointError" /\ result.value = <<>>)

(***************************************************************************)
(* C2: get_compilation_commands called with an empty source_filenames      *)
(* list, or with a name whose extension is not a source extension, fails   *)
(* with InvalidSubmissionError / LanguageMismatchError and returns no      *)
(* pipeline.                                                               *)
(***************************************************************************)
C2_InvalidSubmissionRejected ==
    (Compiled /\ (\/ source_filenames = <<>>
                  \/ \E i \in 1..Len(source_filenames) :
                        ~HasSourceExtension(source_filenames[i])))
        => (/\ result.raised \in {"InvalidSubmissionError", "LanguageMismatchError"}
            /\ result.value = <<>>)

(***************************************************************************)
(* C3: the first stage of the compilation pipeline invokes the compiler    *)
(* program javac (token 0 is the program's path) on exactly the given      *)
(* source_filenames, in the given order.                                   *)
(***************************************************************************)
C3_CompilerStageInvokesJavac ==
    Compiled
        => (/\ Basename(result.value[1][1]) = <<"j", "a", "v", "a", "c">>
            /\ Tail(result.value[1]) = source_filenames)

(***************************************************************************)
(* C4 as stated: get_evaluation_commands with a non-empty main returns     *)
(* exactly one stage for either value of USE_JAR; it invokes the runtime   *)
(* with "-cp" executable_filename main, and ends with args.                *)
(***************************************************************************)
C4_SingleStageEitherFlag ==
    (Evaluated /\ main \notin {None, <<>>})
        => LET n == Len(GivenArgs(args))
               stage == result.value[1]
           IN /\ Len(result.value) = 1
              /\ stage[1] = JAVA
              /\ Len(stage) >= n + 4
              /\ LastTokens(stage, n) = GivenArgs(args)
              /\ LastTokens(WithoutLastTokens(stage, n), 3)
                    = <<DASH_CP, executable_filename, main>>

(***************************************************************************)
(* C4 amended: with a non-empty main, USE_JAR set gives exactly one stage, *)
(* the runtime with "-cp" executable_filename main followed by args;       *)
(* USE_JAR unset gives exactly two stages, unzip of executable_filename    *)
(* and then the runtime with main followed by args and no classpath.  The  *)
(* final len(args) tokens of the runtime stage are args in order.          *)
(***************************************************************************)
C4_StagesPerPackagingFlag ==
    (Evaluated /\ main \notin {None, <<>>})
        => LET n == Len(GivenArgs(args))
               stage == LastStage(result.value)
           IN /\ result.raised = "none"
              /\ stage[1] = JAVA
              /\ Len(stage) >= n + 2
              /\ LastTokens(stage, n) = GivenArgs(args)
              /\ IF USE_JAR
                 THEN /\ Len(result.value) = 1
                      /\ Len(stage) >= n + 4
                      /\ LastTokens(WithoutLastTokens(stage, n), 3)
                            = <<DASH_CP, executable_filename, main>>
                 ELSE /\ Len(result.value) = 2
                      /\ result.value[1] = <<UNZIP, executable_filename>>
                      /\ LastTokens(WithoutLastTokens(stage, n), 1) = <<main>>
                      /\ \A i \in 1..Len(stage) : stage[i] # DASH_CP

\* An evaluation call with a class name and the arguments "5", "3".
C4_Witness ==
    /\ Evaluated
    /\ ~USE_JAR
    /\ main = <<"M", "a", "i", "n">>
    /\ args = <<<<"5">>, <<"3">>>>
    /\ Len(result.value) = 2

(***************************************************************************)
(* C5: the last stage of the compilation pipeline is exactly               *)
(* ["/bin/sh", "-c", line], and the shell reads line as one simple         *)
(* command in which the destination is one word equal to                   *)
(* executable_filename: jar cf <destination> *.class, or                   *)
(* zip -r - *.class > <destination>.                                       *)
(***************************************************************************)
C5_PackagingStageQuoted ==
    Compiled
        => LET stage == LastStage(result.value)
               lx == ShLex(stage[3])
           IN /\ Len(stage) = 3
              /\ stage[1] = SH
              /\ stage[2] = DASH_C
              /\ lx.ok
              /\ ~lx.expands
              /\ lx.toks =
                    IF USE_JAR
                    THEN <<ShWord(JAR, FALSE), ShWord(CF, FALSE),
                           ShWord(executable_filename, FALSE),
                           ShWord(CLASS_GLOB, TRUE)>>
                    ELSE <<ShWord(ZIP, FALSE), ShWord(DASH_R, FALSE),
                           ShWord(DASH, FALSE), ShWord(CLASS_GLOB, TRUE),
                           ShOp(">"), ShWord(executable_filename, FALSE)>>

\* A compilation call whose executable_filename holds a single quote.
C5_Witness ==
    /\ Compiled
    /\ \E i \in 1..Len(executable_filename) : executable_filename[i] = "'"
    /\ Len(LastStage(result.value)) = 3

(***************************************************************************)
(* C6: for a non-empty source_filenames list get_compilation_commands      *)
(* returns exactly two stages, whatever the number of source files, the    *)
(* executable_filename, for_evaluation and USE_JAR: first the stage that   *)
(* lists the sources, then the packaging stage.                            *)
(***************************************************************************)
C6_TwoCompilationStages ==
    (Compiled /\ source_filenames # <<>>)
        => (/\ result.raised = "none"
            /\ Len(result.value) = 2
            /\ ~IsShellStage(result.value[1])
            /\ Tail(result.value[1]) = source_filenames
            /\ IsShellStage(result.value[2]))

\* A compilation call with two source files, not for evaluation.
C6_Witness ==
    /\ Compiled
    /\ Len(source_filenames) = 2
    /\ ~for_evaluation
    /\ Len(result.value) = 2
(***************************************************************************)
(* C7: when a compilation call is followed by an evaluation call for the   *)
(* same executable_filename (the packaging flag being the same), the file  *)
(* the shell writes in the packaging stage is the executable_filename the  *)
(* evaluation pipeline reads, and the archive format written (jar or zip)  *)
(* is the one the evaluation pipeline consumes (jar as the -cp classpath,  *)
(* zip unpacked first).                                                    *)
(***************************************************************************)
C7_PipelinesAgreeOnArtifact ==
    [][(Compiled /\ method' = "get_evaluation_commands"
            /\ executable_filename' = executable_filename)
        => LET written == Packaged(result.value)
               read == Consumed(result'.value)
           IN /\ written.format \in {"jar", "zip"}
              /\ written.format = read.format
              /\ written.file = executable_filename
              /\ read.file = executable_filename]_vars

\* An evaluation call, for a class name, on an executable_filename that
\* needs quoting in the packaging stage.
C7_Witness ==
    /\ Evaluated
    /\ executable_filename = <<"'">>
    /\ main = <<"M", "a", "i", "n">>
    /\ Consumed(result.value).file = <<"'">>

(***************************************************************************)
(* C8: two successive evaluation calls with the same executable_filename   *)
(* and main return pipelines that are equal except for the trailing args   *)
(* of the runtime stage; the flags -Xmx, -Xss, -Xbatch, -XX:+UseSerialGC,  *)
(* -XX:-TieredCompilation and -XX:CICompilerCount=1 stand at the same      *)
(* positions, before the args, in both.                                    *)
(***************************************************************************)
C8_FlagsIndependentOfArgs ==
    [][(Evaluated /\ method' = "get_evaluation_commands"
            /\ executable_filename' = executable_filename /\ main' = main)
        => LET p == result.value
               q == result'.value
               s == WithoutLastTokens(LastStage(p), Len(GivenArgs(args)))
               t == WithoutLastTokens(LastStage(q), Len(GivenArgs(args')))
           IN /\ Len(p) = Len(q)
              /\ \A i \in 1..(Len(p) - 1) : p[i] = q[i]
              /\ s = t
              /\ LastTokens(LastStage(p), Len(GivenArgs(args))) = GivenArgs(args)
              /\ LastTokens(LastStage(q), Len(GivenArgs(args'))) = GivenArgs(args')
              /\ \A flag \in {XMX, XSS, XBATCH, SERIAL_GC, NO_TIERED, CI_COUNT} :
                    \E i \in 1..Len(s) : s[i] = flag /\ t[i] = flag]_vars

\* An evaluation call with two arguments.
C8_Witness ==
    /\ Evaluated
    /\ main = <<"M", "a", "i", "n">>
    /\ args = <<<<"3">>, <<"5">>>>
    /\ LastTokens(LastStage(result.value), 2) = args

(***************************************************************************)
(* C9: the packaging stage is the only stage that goes through the shell,  *)
(* and its line holds, besides the code's own words, only the              *)
(* destination; the source filenames, and in evaluation pipelines the      *)
(* executable_filename, main and every element of args, are each one       *)
(* whole, unmodified token of a stage that does not go through the shell.  *)
(***************************************************************************)
C9_OnlyPackagingThroughShell ==
    /\ Compiled
          => LET p == result.value
             IN /\ \A i \in 1..Len(p) : IsShellStage(p[i]) <=> (i = Len(p))
                /\ Tail(p[1]) = source_filenames
                /\ \A i \in 1..Len(ShLex(LastStage(p)[3]).toks) :
                      LET tok == ShLex(LastStage(p)[3]).toks[i]
                      IN \/ tok.op /\ tok.text = GT
                         \/ ~tok.op /\ tok.text \in
                               {JAR, CF, CLASS_GLOB, ZIP, DASH_R, DASH,
                                executable_filename}
    /\ Evaluated
          => LET p == result.value
                 n == Len(GivenArgs(args))
                 stage == LastStage(p)
             IN /\ \A i \in 1..Len(p) : ~IsShellStage(p[i])
                /\ Consumed(p).file = executable_filename
                /\ Len(stage) >= n + 1
                /\ LastTokens(stage, n) = GivenArgs(args)
                /\ stage[Len(stage) - n] = main

\* A compilation call with two source files and a destination that is a
\* shell operator character.
C9_Witness ==
    /\ Compiled
    /\ Len(source_filenames) = 2
    /\ executable_filename = <<";">>
    /\ IsShellStage(LastStage(result.value))

(***************************************************************************)
(* C10: the dictionary Contest.export_to_dict returns has one entry for    *)
(* every data field Contest.__init__ sets, which holds the object's        *)
(* current value (scalars as they are, objects by their own export).       *)
(***************************************************************************)
C10_ExportComplete ==
    (exported.called /\ exported.raised = "none")
        => (/\ DOMAIN exported.value = ContestFields
            /\ \A f \in {"name", "description", "token_initial", "token_max",
                         "token_total", "token_min_interval", "token_gen_time",
                         "token_gen_number", "start", "stop"} :
                  exported.value[f] = self[f])

====
